---- MODULE Spec2Model ----
(***************************************************************************)
(* Model of the GPX analyzer's route pipeline: the route processor         *)
(* (route.js), the route mutators and upload handlers (events.js), the     *)
(* multi-file handling (multi-gpx.js) and the elevation resolver           *)
(* (elevation.js).                                                         *)
(*                                                                         *)
(* Geometry.  Track points lie at the equator.  lon is counted in          *)
(* hundredths of a degree and lat in steps of half a metre, and a track     *)
(* moves along one of the two at a time, so the haversine distance of two   *)
(* of its points is the sum of the two differences; distances are kept in   *)
(* whole decimetres (11120 dm per hundredth of a degree of lon, 5 dm per    *)
(* step of lat).  Elevations are whole metres.                              *)
(***************************************************************************)
EXTENDS Integers, Sequences, FiniteSets, TLC

(* ---------------------------------------------------------------- bounds *)
MaxPoints == 3       \* longest track of a loaded file
MaxLon == 2          \* lon of a track point, map click: 0..MaxLon
MaxEle == 1          \* elevation of a track point: 0..MaxEle levels of 12 m
MaxWaypoints == 4    \* addWaypoint* is not offered beyond this many waypoints
MaxLinkPoints == 1   \* longest track of a file that is loaded together with another

(* ------------------------------------------------------- JavaScript values *)
\* ele === null (multi-gpx.js:16): the "no <ele> element" sentinel
NoEle == -999

\* ToNumber as applied by the arithmetic operators: null - x is 0 - x
Num(e) == IF e = NoEle THEN 0 ELSE e

Abs(x) == IF x < 0 THEN 0 - x ELSE x

\* String.prototype.trim over the names the model uses
Trim(s) == IF s \in {"", " ", "  "} THEN ""
           ELSE IF s \in {" Peak", "Peak ", " Peak "} THEN "Peak"
           ELSE s

\* undefined, as a property read of a spread undefined gives it; undefined - undefined
\* is NaN, which a sort comparator returns as "equal"
Undefined == -998

\* what { ...undefined } contributes: no lat, lon, ele, distance, gain, loss
NoPoint == [lat |-> Undefined, lon |-> Undefined, ele |-> Undefined,
            distance |-> Undefined, gain |-> Undefined, loss |-> Undefined]

\* array[i - 1]: undefined outside the array
PointAt(points, i) == IF i \in 1..Len(points) THEN points[i] ELSE NoPoint

\* routeData === null / originalRouteData === null (utils.js:4-5)
NoRoute == [points |-> <<>>, waypoints |-> <<>>,
            totalDistance |-> 0, totalGain |-> 0, totalLoss |-> 0]

(* ------------------------------------------------------------- utils.js *)
haversineDistance(lat1, lon1, lat2, lon2) ==
    5 * Abs(lat2 - lat1) + 11120 * Abs(lon2 - lon1)

\* index (1-based) of the first point at minimal haversine distance
RECURSIVE NearestIdx(_, _, _, _, _, _)
NearestIdx(trackPoints, lat, lon, i, best, minDistance) ==
    IF i > Len(trackPoints) THEN best
    ELSE LET d == haversineDistance(lat, lon, trackPoints[i].lat, trackPoints[i].lon)
         IN  IF minDistance < 0 \/ d < minDistance
             THEN NearestIdx(trackPoints, lat, lon, i + 1, i, d)
             ELSE NearestIdx(trackPoints, lat, lon, i + 1, best, minDistance)

\* as findNearestTrackPoint, without the search: the first point
findNearestTrackPoint_First(trackPoints, lat, lon) == PointAt(trackPoints, 1)

findNearestTrackPoint(trackPoints, lat, lon) ==
    PointAt(trackPoints, NearestIdx(trackPoints, lat, lon, 1, 1, -1))

(* ------------------------------------------------------------- route.js *)
\* one step of the cumulative loop: the gain added by going from prev to cur
GainStep(prevEle, curEle) ==
    LET elevationDiff == Num(curEle) - Num(prevEle)
    IN  IF elevationDiff > 0 THEN elevationDiff ELSE 0

\* as LossStep, without Math.abs
LossStep_NoAbs(prevEle, curEle) ==
    LET elevationDiff == Num(curEle) - Num(prevEle)
    IN  IF elevationDiff > 0 THEN 0 ELSE elevationDiff

LossStep(prevEle, curEle) ==
    LET elevationDiff == Num(curEle) - Num(prevEle)
    IN  IF elevationDiff > 0 THEN 0 ELSE Abs(elevationDiff)

\* the cumulative loop shared by processRouteData, reverseRouteData and the
\* two truncations: every point gets distance/gain/loss summed from index 1
RECURSIVE Accumulate(_, _, _)
Accumulate(trackPoints, i, acc) ==
    IF i > Len(trackPoints) THEN acc
    ELSE LET point == trackPoints[i]
             prev  == acc[i - 1]
             next  == IF i = 1
                      THEN [lat |-> point.lat, lon |-> point.lon, ele |-> point.ele,
                            distance |-> 0, gain |-> 0, loss |-> 0]
                      ELSE [lat |-> point.lat, lon |-> point.lon, ele |-> point.ele,
                            distance |-> prev.distance +
                                haversineDistance(prev.lat, prev.lon, point.lat, point.lon),
                            gain |-> prev.gain + GainStep(prev.ele, point.ele),
                            loss |-> prev.loss + LossStep(prev.ele, point.ele)]
         IN  Accumulate(trackPoints, i + 1, Append(acc, next))

ProcessPoints(trackPoints) == Accumulate(trackPoints, 1, <<>>)

\* { name, ...point, isStart, isEnd, isCustom }
MakeWaypoint(name, point, isStart, isEnd, isCustom) ==
    [name |-> name, lat |-> point.lat, lon |-> point.lon, ele |-> point.ele,
     distance |-> point.distance, gain |-> point.gain, loss |-> point.loss,
     isStart |-> isStart, isEnd |-> isEnd, isCustom |-> isCustom]

\* Array.prototype.sort((a, b) => a.distance - b.distance): stable
RECURSIVE InsertByDistance(_, _)
InsertByDistance(sorted, wp) ==
    IF sorted = <<>> THEN <<wp>>
    ELSE IF sorted[Len(sorted)].distance <= wp.distance THEN Append(sorted, wp)
    ELSE Append(InsertByDistance(SubSeq(sorted, 1, Len(sorted) - 1), wp),
                sorted[Len(sorted)])

RECURSIVE SortFrom(_, _, _)
SortFrom(s, i, acc) ==
    IF i > Len(s) THEN acc ELSE SortFrom(s, i + 1, InsertByDistance(acc, s[i]))

\* as SortByDistance, leaving the order as it is
SortByDistance_Unsorted(s) == s

SortByDistance(s) == SortFrom(s, 1, <<>>)

NotStartEnd(wp) == ~wp.isStart /\ ~wp.isEnd

\* as ensureStartEndWaypoints, with the end flag compared against length
ensureStartEndWaypoints_EndOffByOne(waypoints, processedPoints) ==
    LET filteredWaypoints == SelectSeq(waypoints, NotStartEnd)
        startWaypoint == MakeWaypoint("Start", PointAt(processedPoints, 1), TRUE, FALSE, FALSE)
        endWaypoint == MakeWaypoint("End", PointAt(processedPoints, Len(processedPoints)),
                                    FALSE, TRUE, FALSE)
        sorted == SortByDistance(<<startWaypoint>> \o filteredWaypoints \o <<endWaypoint>>)
    IN  [idx \in 1..Len(sorted) |->
            [sorted[idx] EXCEPT !.isStart = (idx = 1), !.isEnd = (idx = Len(sorted) + 1)]]

ensureStartEndWaypoints(waypoints, processedPoints) ==
    LET filteredWaypoints == SelectSeq(waypoints, NotStartEnd)
        startWaypoint == MakeWaypoint("Start", PointAt(processedPoints, 1), TRUE, FALSE, FALSE)
        endWaypoint == MakeWaypoint("End", PointAt(processedPoints, Len(processedPoints)),
                                    FALSE, TRUE, FALSE)
        sorted == SortByDistance(<<startWaypoint>> \o filteredWaypoints \o <<endWaypoint>>)
    IN  [idx \in 1..Len(sorted) |->
            [sorted[idx] EXCEPT !.isStart = (idx = 1), !.isEnd = (idx = Len(sorted))]]

generateWaypoints(processedPoints) ==
    << MakeWaypoint("Start", PointAt(processedPoints, 1), TRUE, FALSE, FALSE),
       MakeWaypoint("End", PointAt(processedPoints, Len(processedPoints)),
                    FALSE, TRUE, FALSE) >>

processRouteData(trackPoints, gpxWaypoints) ==
    LET processedPoints == ProcessPoints(trackPoints)
        \* cumulativeDistance, cumulativeGain, cumulativeLoss after the loop
        last == IF Len(processedPoints) = 0
                THEN [distance |-> 0, gain |-> 0, loss |-> 0]
                ELSE processedPoints[Len(processedPoints)]
        waypoints ==
            IF Len(gpxWaypoints) > 0
            THEN [k \in 1..Len(gpxWaypoints) |->
                    MakeWaypoint(gpxWaypoints[k].name,
                                 findNearestTrackPoint(processedPoints,
                                     gpxWaypoints[k].lat, gpxWaypoints[k].lon),
                                 FALSE, FALSE, FALSE)]
            ELSE generateWaypoints(processedPoints)
    IN  [points |-> processedPoints,
         waypoints |-> ensureStartEndWaypoints(waypoints, processedPoints),
         totalDistance |-> last.distance,
         totalGain |-> last.gain,
         totalLoss |-> last.loss]

\* as Reverse, leaving the order as it is
Reverse_Identity(s) == s

\* [...s].reverse()
Reverse(s) == [i \in 1..Len(s) |-> s[Len(s) + 1 - i]]

\* as reverseRouteData, without the recalculation: the reversed points keep
\* the cumulative fields they had
reverseRouteData_KeepsCumulative(data) ==
    LET reversedPoints == Reverse(data.points)
        last == reversedPoints[Len(reversedPoints)]
    IN  [points |-> reversedPoints,
         waypoints |-> Reverse(data.waypoints),
         totalDistance |-> last.distance,
         totalGain |-> last.gain,
         totalLoss |-> last.loss]

\* as reverseRouteData, with the two totals exchanged
reverseRouteData_SwapsTotals(data) ==
    LET reversedPoints == ProcessPoints(Reverse(data.points))
        last == reversedPoints[Len(reversedPoints)]
    IN  [points |-> reversedPoints,
         waypoints |-> Reverse(data.waypoints),
         totalDistance |-> last.distance,
         totalGain |-> last.loss,
         totalLoss |-> last.gain]

reverseRouteData(data) ==
    LET reversedPoints == ProcessPoints(Reverse(data.points))
        last == reversedPoints[Len(reversedPoints)]
    IN  [points |-> reversedPoints,
         waypoints |-> Reverse(data.waypoints),
         totalDistance |-> last.distance,
         totalGain |-> last.gain,
         totalLoss |-> last.loss]

\* as ResnapWaypoints, the filter rejecting a waypoint at distance 0
ResnapWaypoints_DropsBoundary(waypoints, recalculatedPoints) ==
    LET total == recalculatedPoints[Len(recalculatedPoints)].distance
        snapped == [k \in 1..Len(waypoints) |->
                      MakeWaypoint(waypoints[k].name,
                                   findNearestTrackPoint(recalculatedPoints,
                                       waypoints[k].lat, waypoints[k].lon),
                                   waypoints[k].isStart, waypoints[k].isEnd,
                                   waypoints[k].isCustom)]
        InRange(wp) == wp.distance > 0 /\ wp.distance <= total
    IN  SortByDistance(SelectSeq(snapped, InRange))

\* .map(wp => ({...wp, ...nearestPoint})).filter(...).sort(...) of the truncations
ResnapWaypoints(waypoints, recalculatedPoints) ==
    LET total == recalculatedPoints[Len(recalculatedPoints)].distance
        snapped == [k \in 1..Len(waypoints) |->
                      MakeWaypoint(waypoints[k].name,
                                   findNearestTrackPoint(recalculatedPoints,
                                       waypoints[k].lat, waypoints[k].lon),
                                   waypoints[k].isStart, waypoints[k].isEnd,
                                   waypoints[k].isCustom)]
        InRange(wp) == wp.distance >= 0 /\ wp.distance <= total
    IN  SortByDistance(SelectSeq(snapped, InRange))

\* as TruncatedRoute, keeping the cumulative fields the slice came with
TruncatedRoute_NoRecalc(data, truncatedPoints) ==
    LET recalculatedPoints == truncatedPoints
        last == recalculatedPoints[Len(recalculatedPoints)]
    IN  [points |-> recalculatedPoints,
         waypoints |-> ensureStartEndWaypoints(
                           ResnapWaypoints(data.waypoints, recalculatedPoints),
                           recalculatedPoints),
         totalDistance |-> last.distance,
         totalGain |-> last.gain,
         totalLoss |-> last.loss]

TruncatedRoute(data, truncatedPoints) ==
    LET recalculatedPoints == ProcessPoints(truncatedPoints)
        last == recalculatedPoints[Len(recalculatedPoints)]
    IN  [points |-> recalculatedPoints,
         waypoints |-> ensureStartEndWaypoints(
                           ResnapWaypoints(data.waypoints, recalculatedPoints),
                           recalculatedPoints),
         totalDistance |-> last.distance,
         totalGain |-> last.gain,
         totalLoss |-> last.loss]

\* as truncateRouteFromStart, slicing one point earlier
truncateRouteFromStart_OffByOne(data, newStartPointIndex) ==
    TruncatedRoute(data, SubSeq(data.points, newStartPointIndex, Len(data.points)))

\* newStartPointIndex and newEndPointIndex are 0-based, as in the source
truncateRouteFromStart(data, newStartPointIndex) ==
    TruncatedRoute(data, SubSeq(data.points, newStartPointIndex + 1, Len(data.points)))

truncateRouteFromEnd(data, newEndPointIndex) ==
    TruncatedRoute(data, SubSeq(data.points, 1, newEndPointIndex + 1))

(* ------------------------------------------------------------ the session *)
VARIABLES
    loadedGPXFiles,       \* utils.js:26  array of {name, points, waypoints}
    selectedGPXIndex,     \* utils.js:27
    routeData,            \* utils.js:4   the current route, or NoRoute
    originalRouteData,    \* utils.js:5   the route kept for reset, or NoRoute
    elevationSource,      \* utils.js:11
    lastOp,               \* the handler that ran last: its alert and whether it threw
    uploads,              \* one entry per uploaded file: its reader and its parse
    srtmTileCache,        \* elevation.js:4  the keys of the cached tiles
    aliased,              \* routeData and originalRouteData are one and the same object
    call                  \* a function applied on its own: its arguments and its result

vars == <<loadedGPXFiles, selectedGPXIndex, routeData, originalRouteData,
          elevationSource, lastOp, uploads, srtmTileCache, aliased, call>>

NoCall == [fn |-> "", args |-> <<>>, done |-> FALSE, threw |-> FALSE, result |-> <<>>]

Op(name, alert, threw) == [op |-> name, alert |-> alert, threw |-> threw]

Lons == 0..MaxLon

\* the terrain under the track: the elevation a recorded point at lon carries
Terrain(lon) == 12 * (lon % (MaxEle + 1))

\* the <trkpt> elements of the uploaded files, each with its <ele>
RawPoints == {[lat |-> 0, lon |-> x, ele |-> Terrain(x)] : x \in Lons}

\* hasElevation of parseGPXForMultiUpload: some ele is neither null nor 0
HasElevation(trackPoints) ==
    \E i \in 1..Len(trackPoints) : trackPoints[i].ele # NoEle /\ trackPoints[i].ele # 0

\* a recording: consecutive points are at most one step apart
Continuous(t) == \A i \in 1..(Len(t) - 1) : Abs(t[i + 1].lon - t[i].lon) <= 1

CompleteTracks(n) == {t \in [1..n -> RawPoints] : Continuous(t)}

\* a file whose last <trkpt> has no <ele>
LastEleMissing(t) == [t EXCEPT ![Len(t)].ele = NoEle]

\* the tracks parseGPXForMultiUpload can store.  A track that had a non-zero
\* elevation is stored as parsed, complete or not (the incomplete ones taken
\* here are the shorter ones); any other went through fetchElevationData, and
\* of those the ones resolved to the flat profile are taken.
StoredTracks ==
    UNION {CompleteTracks(n) : n \in 1..MaxPoints}
        \cup UNION {{LastEleMissing(t) : t \in {u \in CompleteTracks(n) :
                                                  HasElevation(LastEleMissing(u))}} :
                     n \in 1..(MaxPoints - 1)}

\* the <wpt> elements of an uploaded file: none, or one hut
GpxWaypointLists ==
    {<<>>, <<[lat |-> 0, lon |-> 1, ele |-> 0, name |-> "Hut"]>>}

StoredFiles(name) ==
    {[name |-> name, points |-> t, waypoints |-> w] :
        t \in StoredTracks, w \in GpxWaypointLists}

ShortFiles(name) == {f \in StoredFiles(name) : Len(f.points) <= MaxLinkPoints}

\* the loaded-files lists of the session: one file, or a short file followed
\* by a short file without waypoints
LoadedLists ==
    {<<f>> : f \in StoredFiles("a")}
        \cup {<<f, g>> : f \in ShortFiles("a"),
                         g \in {h \in ShortFiles("b") : h.waypoints = <<>>}}

Init ==
    /\ loadedGPXFiles \in LoadedLists
    /\ selectedGPXIndex = 0
    /\ routeData = NoRoute
    /\ originalRouteData = NoRoute
    /\ elevationSource =
          IF \A k \in 1..Len(loadedGPXFiles) : HasElevation(loadedGPXFiles[k].points)
          THEN "Unknown" ELSE "None (flat profile)"
    /\ lastOp = Op("load", "", FALSE)
    /\ uploads = <<>>
    /\ srtmTileCache = {}
    /\ aliased = FALSE
    /\ call = NoCall

\* as CopyRoute, assigning the object itself
CopyRoute_SameObject(data) == [route |-> data, sameObject |-> TRUE]

\* { points: points.map(p => ({...p})), waypoints: waypoints.map(...), totals }:
\* a new object with new arrays of new elements, equal to the route
CopyRoute(data) == [route |-> data, sameObject |-> FALSE]

\* what a write through routeData (a property assigned, an array spliced or
\* pushed to, an element changed) leaves in originalRouteData
WrittenThrough(newRouteData) == IF aliased THEN newRouteData ELSE originalRouteData

(* --------------------------------------------------------- multi-gpx.js *)
selectGPXFile(index) ==
    /\ index >= 0 /\ index < Len(loadedGPXFiles)
    /\ LET gpxFile == loadedGPXFiles[index + 1]
           processedData == processRouteData(gpxFile.points, gpxFile.waypoints)
       IN  /\ selectedGPXIndex' = index
           /\ routeData' = processedData
           /\ originalRouteData' = CopyRoute(processedData).route
           /\ aliased' = CopyRoute(processedData).sameObject
    /\ lastOp' = Op("selectGPXFile", "", FALSE)
    /\ UNCHANGED <<loadedGPXFiles, elevationSource, uploads, srtmTileCache, call>>

\* file1Index, point1, file2Index, point2 are read from the four <select>s of
\* the linking section, which updateGPXFilesList shows once two files are loaded
linkSelectedGPXFiles(file1Index, point1, file2Index, point2) ==
    /\ Len(loadedGPXFiles) >= 2
    /\ file1Index \in 0..(Len(loadedGPXFiles) - 1)
    /\ file2Index \in 0..(Len(loadedGPXFiles) - 1)
    /\ IF file1Index = file2Index
       THEN /\ lastOp' = Op("linkSelectedGPXFiles", "Please select two different GPX files", FALSE)
            /\ UNCHANGED <<routeData, originalRouteData, aliased>>
       ELSE LET gpxFile1 == loadedGPXFiles[file1Index + 1]
                gpxFile2 == loadedGPXFiles[file2Index + 1]
                startPoints1 == IF point1 = "start" THEN gpxFile1.points
                                ELSE Reverse(gpxFile1.points)
                startPoints2 == IF point2 = "start" THEN gpxFile2.points
                                ELSE Reverse(gpxFile2.points)
                linkedPoints == startPoints1 \o startPoints2
                linkedWaypoints == gpxFile1.waypoints \o gpxFile2.waypoints
                processedData == processRouteData(linkedPoints, linkedWaypoints)
            IN  /\ routeData' = processedData
                /\ originalRouteData' = CopyRoute(processedData).route
                /\ aliased' = CopyRoute(processedData).sameObject
                /\ lastOp' = Op("linkSelectedGPXFiles", "Successfully linked", FALSE)
    /\ UNCHANGED <<loadedGPXFiles, selectedGPXIndex, elevationSource, uploads, srtmTileCache,
                   call>>

(* ------------------------------------------------------------ events.js *)
handleResetRoute ==
    /\ IF originalRouteData = NoRoute
       THEN /\ lastOp' = Op("handleResetRoute", "No original route data", FALSE)
            /\ UNCHANGED <<routeData, aliased>>
       ELSE /\ routeData' = CopyRoute(originalRouteData).route
            /\ aliased' = CopyRoute(originalRouteData).sameObject
            /\ lastOp' = Op("handleResetRoute", "", FALSE)
    /\ UNCHANGED <<loadedGPXFiles, selectedGPXIndex, originalRouteData, elevationSource,
                 uploads, srtmTileCache, call>>

\* as ReversedRoute, the waypoints keeping the distance, gain, loss and ele
\* they had
ReversedRoute_NoRemap(data) ==
    LET reversed == reverseRouteData(data)
        finalWaypoints == ensureStartEndWaypoints(reversed.waypoints, reversed.points)
    IN  [reversed EXCEPT !.waypoints = finalWaypoints]

\* the route handleReverseRoute assigns to routeData
ReversedRoute(data) ==
    LET reversed == reverseRouteData(data)
        remappedWaypoints ==
            [k \in 1..Len(reversed.waypoints) |->
                LET wp == reversed.waypoints[k]
                    nearestPoint == findNearestTrackPoint(reversed.points, wp.lat, wp.lon)
                IN  [wp EXCEPT !.distance = nearestPoint.distance,
                               !.gain = nearestPoint.gain,
                               !.loss = nearestPoint.loss,
                               !.ele = nearestPoint.ele]]
        finalWaypoints == ensureStartEndWaypoints(remappedWaypoints, reversed.points)
    IN  [reversed EXCEPT !.waypoints = finalWaypoints]

handleReverseRoute ==
    /\ IF routeData = NoRoute
       THEN UNCHANGED <<routeData, aliased>>
       ELSE /\ routeData' = ReversedRoute(routeData)
            /\ aliased' = FALSE
    /\ lastOp' = Op("handleReverseRoute", "", FALSE)
    /\ UNCHANGED <<loadedGPXFiles, selectedGPXIndex, originalRouteData, elevationSource,
                 uploads, srtmTileCache, call>>

\* points.findIndex(p => Math.abs(p.distance - d) < 0.001), 0-based, -1 if none;
\* distances are in decimetres here, so 0.001 km is 10
RECURSIVE FindIndexFrom(_, _, _)
FindIndexFrom(points, d, i) ==
    IF i > Len(points) THEN -1
    ELSE IF Abs(points[i].distance - d) < 10 THEN i - 1
    ELSE FindIndexFrom(points, d, i + 1)

findIndexByDistance(points, d) == FindIndexFrom(points, d, 1)

\* the route deleteWaypoint(index) leaves behind when it deletes the start
DeleteStart(data) ==
    LET newStartWaypoint == data.waypoints[2]
        newStartPointIndex == findIndexByDistance(data.points, newStartWaypoint.distance)
    IN  IF newStartPointIndex > 0
        THEN LET truncated == truncateRouteFromStart(data, newStartPointIndex)
             IN  [truncated EXCEPT !.waypoints[1].isStart = TRUE,
                                   !.waypoints[1].name = "Start"]
        ELSE data

DeleteEnd(data) ==
    LET newEndWaypoint == data.waypoints[Len(data.waypoints) - 1]
        newEndPointIndex == findIndexByDistance(data.points, newEndWaypoint.distance)
    IN  IF newEndPointIndex >= 0 /\ newEndPointIndex < Len(data.points) - 1
        THEN LET truncated == truncateRouteFromEnd(data, newEndPointIndex)
                 n == Len(truncated.waypoints)
             IN  [truncated EXCEPT !.waypoints[n].isEnd = TRUE,
                                   !.waypoints[n].name = "End"]
        ELSE data

\* as AtWaypointFloor, with < for <=
AtWaypointFloor_Strict(data) == Len(data.waypoints) < 2

\* routeData.waypoints.length <= 2: start and end may not be deleted
AtWaypointFloor(data) == Len(data.waypoints) <= 2

RemoveAt(s, i) == SubSeq(s, 1, i - 1) \o SubSeq(s, i + 1, Len(s))

\* as DeleteRegular, splicing at index + 1
DeleteRegular_OffByOne(data, index) ==
    [data EXCEPT !.waypoints =
        ensureStartEndWaypoints(RemoveAt(data.waypoints, index + 2), data.points)]

\* the regular branch: splice(index, 1), then ensureStartEndWaypoints
DeleteRegular(data, index) ==
    [data EXCEPT !.waypoints =
        ensureStartEndWaypoints(RemoveAt(data.waypoints, index + 1), data.points)]

deleteWaypoint(index) ==
    /\ index >= 0
    /\ IF routeData = NoRoute
       THEN \* routeData.waypoints of null: TypeError
            /\ lastOp' = Op("deleteWaypoint", "", TRUE)
            /\ UNCHANGED <<routeData, originalRouteData, aliased>>
       ELSE /\ index < Len(routeData.waypoints)
            /\ LET waypoint == routeData.waypoints[index + 1]
               IN  IF waypoint.isStart \/ waypoint.isEnd
                   THEN IF AtWaypointFloor(routeData)
                        THEN /\ lastOp' = Op("deleteWaypoint",
                                    IF waypoint.isStart
                                    THEN "Cannot delete start waypoint"
                                    ELSE "Cannot delete end waypoint", FALSE)
                             /\ UNCHANGED <<routeData, originalRouteData, aliased>>
                        ELSE \* routeData = truncateRoute...(): another object,
                             \* unless the truncation is skipped
                             /\ routeData' = IF waypoint.isStart
                                             THEN DeleteStart(routeData)
                                             ELSE DeleteEnd(routeData)
                             /\ aliased' = (aliased /\ routeData' = routeData)
                             /\ lastOp' = Op("deleteWaypoint", "", FALSE)
                             /\ UNCHANGED originalRouteData
                   ELSE /\ routeData' = DeleteRegular(routeData, index)
                        /\ originalRouteData' = WrittenThrough(routeData')
                        /\ lastOp' = Op("deleteWaypoint", "", FALSE)
                        /\ UNCHANGED aliased
    /\ UNCHANGED <<loadedGPXFiles, selectedGPXIndex, elevationSource,
                 uploads, srtmTileCache, call>>

\* as AddWaypoint, leaving the list alone when it already has a custom
\* waypoint at the point
AddWaypoint_NoDuplicate(data, nearestPoint) ==
    LET newWaypoint == MakeWaypoint("", nearestPoint, FALSE, FALSE, TRUE)
    IN  IF \E k \in 1..Len(data.waypoints) : data.waypoints[k] = newWaypoint
        THEN data
        ELSE [data EXCEPT !.waypoints =
                 ensureStartEndWaypoints(Append(data.waypoints, newWaypoint), data.points)]

\* push(newWaypoint), then ensureStartEndWaypoints
AddWaypoint(data, nearestPoint) ==
    [data EXCEPT !.waypoints =
        ensureStartEndWaypoints(
            Append(data.waypoints, MakeWaypoint("", nearestPoint, FALSE, FALSE, TRUE)),
            data.points)]

addWaypointFromMapClick(lat, lon) ==
    /\ IF routeData = NoRoute
       THEN \* routeData.points of null: TypeError
            /\ lastOp' = Op("addWaypointFromMapClick", "", TRUE)
            /\ UNCHANGED <<routeData, originalRouteData>>
       ELSE /\ Len(routeData.waypoints) < MaxWaypoints
            /\ routeData' = AddWaypoint(routeData,
                                findNearestTrackPoint(routeData.points, lat, lon))
            /\ originalRouteData' = WrittenThrough(routeData')
            /\ lastOp' = Op("addWaypointFromMapClick", "", FALSE)
    /\ UNCHANGED <<loadedGPXFiles, selectedGPXIndex, elevationSource,
                 uploads, srtmTileCache, aliased, call>>

\* index (1-based) of the first point at minimal |point.distance - distance|
RECURSIVE NearestByDistanceIdx(_, _, _, _, _)
NearestByDistanceIdx(points, distance, i, best, minDiff) ==
    IF i > Len(points) THEN best
    ELSE LET diff == Abs(points[i].distance - distance)
         IN  IF diff < minDiff
             THEN NearestByDistanceIdx(points, distance, i + 1, i, diff)
             ELSE NearestByDistanceIdx(points, distance, i + 1, best, minDiff)

NearestByDistance(points, distance) ==
    points[NearestByDistanceIdx(points, distance, 1, 1, Abs(points[1].distance - distance))]

addWaypointFromChartClick(distance) ==
    /\ IF routeData = NoRoute
       THEN \* routeData.points of null: TypeError
            /\ lastOp' = Op("addWaypointFromChartClick", "", TRUE)
            /\ UNCHANGED <<routeData, originalRouteData>>
       ELSE /\ Len(routeData.waypoints) < MaxWaypoints
            /\ routeData' = AddWaypoint(routeData,
                                NearestByDistance(routeData.points, distance))
            /\ originalRouteData' = WrittenThrough(routeData')
            /\ lastOp' = Op("addWaypointFromChartClick", "", FALSE)
    /\ UNCHANGED <<loadedGPXFiles, selectedGPXIndex, elevationSource,
                 uploads, srtmTileCache, aliased, call>>

(* ------------------------------------------------------------- route.js *)
renameWaypoint(index, newName) ==
    /\ index >= 0
    /\ IF routeData # NoRoute /\ index < Len(routeData.waypoints)
       THEN /\ routeData' = [routeData EXCEPT !.waypoints[index + 1].name =
                             IF Trim(newName) # "" THEN Trim(newName) ELSE "Custom waypoint"]
            /\ originalRouteData' = WrittenThrough(routeData')
       ELSE UNCHANGED <<routeData, originalRouteData>>
    /\ lastOp' = Op("renameWaypoint", "", FALSE)
    /\ UNCHANGED <<loadedGPXFiles, selectedGPXIndex, elevationSource,
                 uploads, srtmTileCache, aliased, call>>

(* ------------------------------------------------------- inputs and Next *)
\* renderWaypointsTable gives a name input to the waypoints that are neither
\* start nor end (isEditable); without a route the function is called as such
RenameOffered(index) ==
    \/ routeData = NoRoute
    \/ /\ index < Len(routeData.waypoints)
       /\ NotStartEnd(routeData.waypoints[index + 1])

WaypointIndices == 0..(MaxWaypoints - 1)
NewNames == {" Peak "}
\* chart clicks, in decimetres: at, between and half way between track points
ChartDistances == {8340 * k : k \in 0..(MaxLon + 1)}

Next ==
    \/ \E index \in 0..1 : selectGPXFile(index)
    \/ \E file1Index, file2Index \in 0..1, point1, point2 \in {"start", "end"} :
          linkSelectedGPXFiles(file1Index, point1, file2Index, point2)
    \/ handleResetRoute
    \/ handleReverseRoute
    \/ \E index \in WaypointIndices : deleteWaypoint(index)
    \/ \E lon \in Lons : addWaypointFromMapClick(0, lon)
    \/ \E distance \in ChartDistances : addWaypointFromChartClick(distance)
    \/ \E index \in WaypointIndices, newName \in NewNames :
          RenameOffered(index) /\ renameWaypoint(index, newName)

Spec == Init /\ [][Next]_vars

(* ----------------------------------------- a session on a slow recording *)
MaxLat == 3          \* lat of a point of a slow recording: 0..MaxLat steps

\* the <trkpt> elements of a file recorded at walking pace or standing still,
\* each with its <ele>
SlowPoints == {[lat |-> y, lon |-> 0, ele |-> Terrain(1)] : y \in 0..MaxLat}

\* consecutive points are one step of lat apart, or at the same place
SlowTracks ==
    UNION {{t \in [1..n -> SlowPoints] :
               /\ t[1].lat = 0
               /\ \A i \in 1..(n - 1) : t[i + 1].lat - t[i].lat \in {0, 1}} :
           n \in 1..(MaxLat + 1)}

\* one such file is loaded
InitSlow ==
    /\ loadedGPXFiles \in {<<[name |-> "a", points |-> t, waypoints |-> <<>>]>> :
                              t \in SlowTracks}
    /\ selectedGPXIndex = 0
    /\ routeData = NoRoute
    /\ originalRouteData = NoRoute
    /\ elevationSource = "Unknown"
    /\ lastOp = Op("load", "", FALSE)
    /\ uploads = <<>>
    /\ srtmTileCache = {}
    /\ aliased = FALSE
    /\ call = NoCall

NextSlow ==
    \/ selectGPXFile(0)
    \/ handleResetRoute
    \/ handleReverseRoute
    \/ \E index \in WaypointIndices : deleteWaypoint(index)
    \/ \E lat \in 0..MaxLat : addWaypointFromMapClick(lat, 0)

SpecSlow == InitSlow /\ [][NextSlow]_vars

(* ------------------------------------------------- a session of linking *)
MaxJoinPoints == 2   \* longest track of a file that is linked

JoinFiles(name) == {f \in StoredFiles(name) : Len(f.points) <= MaxJoinPoints}

\* two files are loaded
InitLink ==
    /\ loadedGPXFiles \in {<<f, g>> : f \in JoinFiles("a"), g \in JoinFiles("b")}
    /\ selectedGPXIndex = 0
    /\ routeData = NoRoute
    /\ originalRouteData = NoRoute
    /\ elevationSource = "Unknown"
    /\ lastOp = Op("load", "", FALSE)
    /\ uploads = <<>>
    /\ srtmTileCache = {}
    /\ aliased = FALSE
    /\ call = NoCall

NextLink ==
    \/ \E index \in 0..1 : selectGPXFile(index)
    \/ \E file1Index, file2Index \in 0..1, point1, point2 \in {"start", "end"} :
          linkSelectedGPXFiles(file1Index, point1, file2Index, point2)

SpecLink == InitLink /\ [][NextLink]_vars

(* --------------------------------------------------------- elevation.js *)
maxPoints == 100     \* fetchElevationData: the sample size aimed at
batchSize == 20      \* tryFetchWithOpenElevation: locations per POST
retries == 1         \* tryFetchWithOpenElevation: attempts after the first

MaxUploadPoints == 2 \* longest track of an uploaded file
MaxUploadedFiles == 2 \* files uploaded in a session, over all upload events

Min(a, b) == IF a < b THEN a ELSE b

\* the indices (0-based) fetchElevationData samples of a track of n >= 1 points
SampledIndices(n) ==
    LET step == IF n \div maxPoints > 1 THEN n \div maxPoints ELSE 1
        strided == [k \in 1..((n - 1) \div step + 1) |-> (k - 1) * step]
    IN  IF strided[Len(strided)] # n - 1 THEN Append(strided, n - 1) ELSE strided

\* sampledIndices.filter((_, i) => i % m === 0)
EveryNth(indices, m) ==
    [k \in 1..((Len(indices) + m - 1) \div m) |-> indices[(k - 1) * m + 1]]

\* the tile a point lies in: `${Math.floor(lat)}_${Math.floor(lon)}`, lat and lon
\* being hundredths of a degree here
TileKey(point) == <<point.lat \div 100, point.lon \div 100>>

\* what the raster and the remote services answer for a point
SourceElevation(point) == Terrain(point.lon)

\* as InterpolateFrom, a null taking the elevation before it whenever there is one
RECURSIVE InterpolateFrom_CopiesPrevious(_, _)
InterpolateFrom_CopiesPrevious(trackPoints, i) ==
    IF i > Len(trackPoints) THEN trackPoints
    ELSE IF trackPoints[i].ele # NoEle THEN InterpolateFrom_CopiesPrevious(trackPoints, i + 1)
    ELSE LET Resolved == {j \in 1..Len(trackPoints) : trackPoints[j].ele # NoEle}
             Before == {j \in Resolved : j < i}
             After == {j \in Resolved : j > i}
             prevIdx == CHOOSE j \in Before : \A k \in Before : k <= j
             nextIdx == CHOOSE j \in After : \A k \in After : j <= k
             ele == IF Before # {} THEN trackPoints[prevIdx].ele
                    ELSE IF After # {} THEN trackPoints[nextIdx].ele
                    ELSE 0
         IN  InterpolateFrom_CopiesPrevious([trackPoints EXCEPT ![i].ele = ele], i + 1)

RECURSIVE InterpolateFrom(_, _)
InterpolateFrom(trackPoints, i) ==
    IF i > Len(trackPoints) THEN trackPoints
    ELSE IF trackPoints[i].ele # NoEle THEN InterpolateFrom(trackPoints, i + 1)
    ELSE LET Resolved == {j \in 1..Len(trackPoints) : trackPoints[j].ele # NoEle}
             Before == {j \in Resolved : j < i}
             After == {j \in Resolved : j > i}
             prevIdx == CHOOSE j \in Before : \A k \in Before : k <= j
             nextIdx == CHOOSE j \in After : \A k \in After : j <= k
             ele == IF Before # {} /\ After # {}
                    THEN trackPoints[prevIdx].ele +
                         ((trackPoints[nextIdx].ele - trackPoints[prevIdx].ele)
                              * (i - prevIdx)) \div (nextIdx - prevIdx)
                    ELSE IF Before # {} THEN trackPoints[prevIdx].ele
                    ELSE IF After # {} THEN trackPoints[nextIdx].ele
                    ELSE 0
         IN  InterpolateFrom([trackPoints EXCEPT ![i].ele = ele], i + 1)

interpolateElevation(trackPoints) == InterpolateFrom(trackPoints, 1)

\* trackPoints.forEach(point => { if (point.ele === null) point.ele = 0; })
FlatProfile(trackPoints) ==
    [i \in 1..Len(trackPoints) |->
        IF trackPoints[i].ele = NoEle THEN [trackPoints[i] EXCEPT !.ele = 0]
        ELSE trackPoints[i]]

\* as SourceOrder, with the two remote batch services exchanged
SourceOrder_Swapped == <<"Local SRTM Data", "OpenTopoData API", "Open-Elevation API",
                         "Open-Elevation API (fallback)">>

SourceOrder == <<"Local SRTM Data", "Open-Elevation API", "OpenTopoData API",
                 "Open-Elevation API (fallback)">>
FlatLabel == "None (flat profile)"

\* One uploaded file.  pc is where its handler stands:
\*   "reading"  FileReader.readAsText is under way
\*   "srtm"     loadSRTMTile awaits the tile fetch for sample i
\*   "oe"       tryFetchWithOpenElevation awaits the POST of the batch at i
\*   "otd"      tryFetchWithOpenTopoData awaits the GET for reduced sample i
\*   "pbp"      tryFetchPointByPoint awaits the GET for reduced sample i
\*   "returned" fetchElevationData has returned (within a step only)
\*   "stored"   the file was pushed to loadedGPXFiles
\*   "rejected" the file had no track point
\* reports lists the sources tried so far with what each returned; resolved
\* tells whether any source has set an elevation; notices counts the
\* flat-profile alerts of this file's fetchElevationData.
NewUpload(event, name, points, waypoints) ==
    [event |-> event, name |-> name, pc |-> "reading",
     parsed |-> points, trackPoints |-> points, waypoints |-> waypoints,
     i |-> 0, attempt |-> 0, successCount |-> 0, totalSuccessCount |-> 0,
     reports |-> <<>>, resolved |-> FALSE, source |-> "", notices |-> 0]

Samples(u) == SampledIndices(Len(u.trackPoints))

Report(u, k, success) ==
    [u EXCEPT !.reports = Append(@, [source |-> SourceOrder[k], success |-> success])]

SetElevation(u, index) ==
    [u EXCEPT !.trackPoints[index + 1].ele = SourceElevation(u.trackPoints[index + 1]),
              !.resolved = TRUE]

\* the end of fetchElevationData: the source is recorded and the rest filled in
ReturnWith(u, k) ==
    [u EXCEPT !.pc = "returned", !.source = SourceOrder[k],
              !.trackPoints = interpolateElevation(u.trackPoints)]

\* as ReturnFlat, without the forEach that replaces null by 0
ReturnFlat_KeepsNull(u) ==
    [u EXCEPT !.pc = "returned", !.source = FlatLabel, !.notices = @ + 1]

ReturnFlat(u) ==
    [u EXCEPT !.pc = "returned", !.source = FlatLabel, !.notices = @ + 1,
              !.trackPoints = FlatProfile(u.trackPoints)]

\* tryFetchPointByPoint from reduced sample i on, up to the next fetch
RECURSIVE PointByPointFrom(_, _)
PointByPointFrom(u, i) ==
    LET reducedIndices == EveryNth(Samples(u), 3)
    IN  IF i < Len(reducedIndices) THEN [u EXCEPT !.pc = "pbp", !.i = i]
        ELSE IF u.successCount >= 10 \/ u.successCount * 10 >= Len(reducedIndices) * 2
        THEN ReturnWith(Report(u, 4, TRUE), 4)
        ELSE ReturnFlat(Report(u, 4, FALSE))

\* tryFetchWithOpenTopoData from reduced sample i on, up to the next fetch
OpenTopoDataFrom(u, i) ==
    LET reducedIndices == EveryNth(Samples(u), 2)
    IN  IF i < Len(reducedIndices) THEN [u EXCEPT !.pc = "otd", !.i = i]
        ELSE IF u.successCount * 10 >= Len(reducedIndices) * 3
        THEN ReturnWith(Report(u, 3, TRUE), 3)
        ELSE PointByPointFrom([Report(u, 3, FALSE) EXCEPT !.successCount = 0], 0)

\* needElevation of the batch at i
NeedElevation(u, i) ==
    LET sampledIndices == Samples(u)
        batchIndices == SubSeq(sampledIndices, i + 1, Min(i + batchSize, Len(sampledIndices)))
        Missing(idx) == u.trackPoints[idx + 1].ele = NoEle
    IN  SelectSeq(batchIndices, Missing)

\* tryFetchWithOpenElevation from the batch at i on, up to the next fetch
RECURSIVE OpenElevationFrom(_, _)
OpenElevationFrom(u, i) ==
    LET n == Len(Samples(u))
        total == u.totalSuccessCount + u.successCount
    IN  IF i < n
        THEN IF Len(NeedElevation(u, i)) = 0 THEN OpenElevationFrom(u, i + batchSize)
             ELSE [u EXCEPT !.pc = "oe", !.i = i]
        ELSE IF total * 10 >= n * 2
        THEN ReturnWith(Report(u, 2, TRUE), 2)
        ELSE IF u.attempt < retries
        THEN OpenElevationFrom([u EXCEPT !.attempt = @ + 1, !.successCount = 0,
                                         !.totalSuccessCount = total], 0)
        ELSE IF total >= 10 \/ total * 100 >= n * 15
        THEN ReturnWith(Report(u, 2, TRUE), 2)
        ELSE OpenTopoDataFrom([Report(u, 2, FALSE) EXCEPT !.successCount = 0], 0)

\* tryFetchWithSRTM from sample i on, up to the next tile fetch
RECURSIVE SrtmFrom(_, _, _)
SrtmFrom(u, i, cache) ==
    LET sampledIndices == Samples(u)
    IN  IF i < Len(sampledIndices)
        THEN IF TileKey(u.trackPoints[sampledIndices[i + 1] + 1]) \in cache
             THEN SrtmFrom([SetElevation(u, sampledIndices[i + 1])
                               EXCEPT !.successCount = @ + 1], i + 1, cache)
             ELSE [u EXCEPT !.pc = "srtm", !.i = i]
        ELSE IF u.successCount * 10 >= Len(sampledIndices) * 8
        THEN ReturnWith(Report(u, 1, TRUE), 1)
        ELSE OpenElevationFrom([Report(u, 1, FALSE) EXCEPT
                                   !.attempt = 0, !.successCount = 0,
                                   !.totalSuccessCount = 0], 0)

fetchElevationData(u, cache) == SrtmFrom([u EXCEPT !.successCount = 0], 0, cache)

InFlight == {"srtm", "oe", "otd", "pbp"}

(* ------------------------------------------ the functions on their own *)
MaxTrackLength == 250   \* longest track whose sampling is computed
MaxInterpolated == 5    \* longest sequence interpolateElevation is applied to
MaxLevel == 2           \* highest elevation of that sequence, in units

RECURSIVE Factorial(_)
Factorial(n) == IF n <= 1 THEN 1 ELSE n * Factorial(n - 1)

\* the unit of the elevations interpolated: every quotient the interpolation
\* forms over a gap of the sequence is then a whole number, as exact as the
\* source's floating-point quotient is for its inputs
EleUnit == Factorial(MaxInterpolated - 1)

Pending(fn, args) ==
    [fn |-> fn, args |-> args, done |-> FALSE, threw |-> FALSE, result |-> <<>>]

\* the <wpt> lists processRouteData is applied to: none, a hut, or a hut
\* followed by a lake at the far end of the map
CallWaypointLists ==
    GpxWaypointLists \cup
        {<<[lat |-> 0, lon |-> 1, ele |-> 0, name |-> "Hut"],
           [lat |-> 0, lon |-> MaxLon, ele |-> 0, name |-> "Lake"]>>}

\* processRouteData(trackPoints, gpxWaypoints): any track, the empty one included
ProcessCalls ==
    {Pending("processRouteData", [trackPoints |-> t, gpxWaypoints |-> w]) :
        t \in {<<>>} \cup StoredTracks, w \in CallWaypointLists}

\* fetchElevationData(trackPoints): a track of n points
SamplingCalls ==
    {Pending("fetchElevationData", [length |-> n]) : n \in 1..MaxTrackLength}

\* interpolateElevation(trackPoints): every mix of resolved and null elevations
InterpolateCalls ==
    UNION {{Pending("interpolateElevation", [trackPoints |-> t]) :
               t \in {u \in [1..n -> [lat : {0}, lon : 0..(n - 1),
                                      ele : {NoEle} \cup {EleUnit * e : e \in 0..MaxLevel}]] :
                         \A k \in 1..n : u[k].lon = k - 1}} :
           n \in 1..MaxInterpolated}

InitCalls ==
    /\ loadedGPXFiles = <<>>
    /\ selectedGPXIndex = 0
    /\ routeData = NoRoute
    /\ originalRouteData = NoRoute
    /\ elevationSource = "Unknown"
    /\ lastOp = Op("load", "", FALSE)
    /\ uploads = <<>>
    /\ srtmTileCache = {}
    /\ aliased = FALSE
    /\ \/ call \in ProcessCalls
       \/ call \in SamplingCalls
       \/ call \in InterpolateCalls

Returned(result) == [call EXCEPT !.done = TRUE, !.result = result]

CallProcessRouteData ==
    /\ call.fn = "processRouteData" /\ ~call.done
    /\ call' = Returned(processRouteData(call.args.trackPoints, call.args.gpxWaypoints))
    /\ UNCHANGED <<loadedGPXFiles, selectedGPXIndex, routeData, originalRouteData,
                   elevationSource, lastOp, uploads, srtmTileCache, aliased>>

\* fetchElevationData up to its first await: the sampled indices
CallSampling ==
    /\ call.fn = "fetchElevationData" /\ ~call.done
    /\ call' = Returned(SampledIndices(call.args.length))
    /\ UNCHANGED <<loadedGPXFiles, selectedGPXIndex, routeData, originalRouteData,
                   elevationSource, lastOp, uploads, srtmTileCache, aliased>>

CallInterpolateElevation ==
    /\ call.fn = "interpolateElevation" /\ ~call.done
    /\ call' = Returned(interpolateElevation(call.args.trackPoints))
    /\ UNCHANGED <<loadedGPXFiles, selectedGPXIndex, routeData, originalRouteData,
                   elevationSource, lastOp, uploads, srtmTileCache, aliased>>

NextCalls ==
    \/ CallProcessRouteData
    \/ CallSampling
    \/ CallInterpolateElevation

SpecCalls == InitCalls /\ [][NextCalls]_vars

(* ---------------------------------------------- the upload: events.js:3-18 *)
\* the <trkpt> lists of the files a user uploads: point k lies at lon k - 1 and
\* has the terrain's elevation or no <ele> at all
UploadTracks ==
    UNION {{t \in [1..n -> [lat : {0}, lon : Lons,
                             ele : {NoEle} \cup {Terrain(x) : x \in Lons}]] :
               \A k \in 1..n : /\ t[k].lon = k - 1
                               /\ t[k].ele \in {NoEle, Terrain(k - 1)}} :
           n \in 0..MaxUploadPoints}

UploadFileLists ==
    UNION {[1..n -> [points : UploadTracks, waypoints : {<<>>}]] : n \in 0..MaxUploadedFiles}

FileNames == <<"a", "b", "c", "d">>

handleMultipleGPXUpload(files) ==
    /\ Len(uploads) + Len(files) <= MaxUploadedFiles
    /\ IF Len(files) = 0
       THEN UNCHANGED <<loadedGPXFiles, uploads>>
       ELSE LET event == IF uploads = <<>> THEN 1 ELSE uploads[Len(uploads)].event + 1
            IN  /\ loadedGPXFiles' = <<>>
                /\ uploads' = uploads \o
                      [k \in 1..Len(files) |->
                          NewUpload(event, FileNames[Len(uploads) + k],
                                    files[k].points, files[k].waypoints)]
    /\ lastOp' = Op("handleMultipleGPXUpload", "", FALSE)
    /\ UNCHANGED <<selectedGPXIndex, routeData, originalRouteData, elevationSource,
                   srtmTileCache, aliased, call>>

\* parseGPXForMultiUpload after fetchElevationData, or without it: a handler
\* that has returned from the resolver records the source, raises the
\* flat-profile alert if that is how it ended, and stores the file
Settle(k, u, cache) ==
    /\ srtmTileCache' = cache
    /\ IF u.pc = "returned"
       THEN /\ uploads' = [uploads EXCEPT ![k] = [u EXCEPT !.pc = "stored"]]
            /\ elevationSource' = u.source
            /\ loadedGPXFiles' = Append(loadedGPXFiles,
                   [name |-> u.name, points |-> u.trackPoints, waypoints |-> u.waypoints])
            /\ lastOp' = Op("parseGPXForMultiUpload",
                            IF u.source = FlatLabel
                            THEN "Unable to fetch elevation data" ELSE "", FALSE)
       ELSE /\ uploads' = [uploads EXCEPT ![k] = u]
            /\ lastOp' = Op("parseGPXForMultiUpload", "", FALSE)
            /\ UNCHANGED <<elevationSource, loadedGPXFiles>>
    /\ UNCHANGED <<selectedGPXIndex, routeData, originalRouteData, aliased, call>>

\* reader.onload: parseGPXForMultiUpload up to its first await
ReaderLoaded(k) ==
    /\ k \in 1..Len(uploads)
    /\ uploads[k].pc = "reading"
    /\ LET u == uploads[k]
       IN  IF Len(u.trackPoints) = 0
           THEN /\ uploads' = [uploads EXCEPT ![k].pc = "rejected"]
                /\ lastOp' = Op("parseGPXForMultiUpload", "No track points found", FALSE)
                /\ UNCHANGED <<loadedGPXFiles, selectedGPXIndex, routeData,
                               originalRouteData, elevationSource, srtmTileCache,
                               aliased, call>>
           ELSE IF HasElevation(u.trackPoints)
           THEN /\ uploads' = [uploads EXCEPT ![k].pc = "stored"]
                /\ loadedGPXFiles' = Append(loadedGPXFiles,
                       [name |-> u.name, points |-> u.trackPoints,
                        waypoints |-> u.waypoints])
                /\ lastOp' = Op("parseGPXForMultiUpload", "", FALSE)
                /\ UNCHANGED <<selectedGPXIndex, routeData, originalRouteData,
                               elevationSource, srtmTileCache, aliased, call>>
           ELSE Settle(k, fetchElevationData(u, srtmTileCache), srtmTileCache)

\* the answer to the tile fetch of loadSRTMTile: the tile (ok) or a failure
\* (HTTP status, network error, unreadable raster); this fetch has no timeout
TileFetchSettles(k, ok) ==
    /\ k \in 1..Len(uploads)
    /\ uploads[k].pc = "srtm"
    /\ LET u == uploads[k]
           index == Samples(u)[u.i + 1]
           cache == IF ok THEN srtmTileCache \cup {TileKey(u.trackPoints[index + 1])}
                    ELSE srtmTileCache
       IN  Settle(k, SrtmFrom(u, IF ok THEN u.i ELSE u.i + 1, cache), cache)

\* the continuation of a service request with its outcome: ok (a result for
\* every location asked) or not (HTTP status, network error, abort)
Continue(u, ok) ==
    IF u.pc = "oe"
    THEN LET needElevation == NeedElevation(u, u.i)
             RECURSIVE Fill(_, _)
             Fill(v, j) == IF j > Len(needElevation) THEN v
                           ELSE Fill(SetElevation(v, needElevation[j]), j + 1)
         IN  IF ok
             THEN OpenElevationFrom([Fill(u, 1) EXCEPT
                                        !.successCount = @ + Len(needElevation)],
                                    u.i + batchSize)
             ELSE OpenElevationFrom(u, u.i + batchSize)
    ELSE LET reducedIndices == EveryNth(Samples(u), IF u.pc = "otd" THEN 2 ELSE 3)
             v == IF ok
                  THEN [SetElevation(u, reducedIndices[u.i + 1]) EXCEPT
                           !.successCount = @ + 1]
                  ELSE u
         IN  IF u.pc = "otd" THEN OpenTopoDataFrom(v, u.i + 1)
             ELSE PointByPointFrom(v, u.i + 1)

\* the service answers before the request's timer fires
RequestSettles(k, ok) ==
    /\ k \in 1..Len(uploads)
    /\ uploads[k].pc \in {"oe", "otd", "pbp"}
    /\ Settle(k, Continue(uploads[k], ok), srtmTileCache)

\* setTimeout(() => controller.abort(), ...) fires: the fetch rejects
RequestTimesOut(k) ==
    /\ k \in 1..Len(uploads)
    /\ uploads[k].pc \in {"oe", "otd", "pbp"}
    /\ Settle(k, Continue(uploads[k], FALSE), srtmTileCache)

UploadIndices == 1..MaxUploadedFiles

InitUpload ==
    /\ loadedGPXFiles = <<>>
    /\ selectedGPXIndex = 0
    /\ routeData = NoRoute
    /\ originalRouteData = NoRoute
    /\ elevationSource = "Unknown"
    /\ lastOp = Op("load", "", FALSE)
    /\ uploads = <<>>
    /\ srtmTileCache = {}
    /\ aliased = FALSE
    /\ call = NoCall

NextUpload ==
    \/ \E files \in UploadFileLists : handleMultipleGPXUpload(files)
    \/ \E k \in UploadIndices : ReaderLoaded(k)
    \/ \E k \in UploadIndices, ok \in BOOLEAN : TileFetchSettles(k, ok)
    \/ \E k \in UploadIndices, ok \in BOOLEAN : RequestSettles(k, ok)
    \/ \E k \in UploadIndices : RequestTimesOut(k)
    \/ \E index \in 0..(MaxUploadedFiles - 1) : selectGPXFile(index)
    \/ \E file1Index, file2Index \in 0..(MaxUploadedFiles - 1),
          point1 \in {"end"}, point2 \in {"start"} :
          linkSelectedGPXFiles(file1Index, point1, file2Index, point2)

SpecUpload == InitUpload /\ [][NextUpload]_vars

\* the event loop runs every handler that is due: a reader that has read its
\* file and a timer that has expired; no service is bound to answer
FairUpload ==
    /\ SpecUpload
    /\ \A k \in UploadIndices : WF_vars(ReaderLoaded(k)) /\ WF_vars(RequestTimesOut(k))

(* ------------------------------------------------------------- properties *)
HasRoute == routeData # NoRoute

StartFlags(w) == {i \in 1..Len(w) : w[i].isStart}
EndFlags(w) == {i \in 1..Len(w) : w[i].isEnd}

\* C1: whenever there is an active route, exactly one waypoint is flagged
\* isStart and exactly one isEnd; they are the first and the last waypoint of
\* the list, and no waypoint is nearer than the first or farther than the last.
C1_OneStartOneEnd ==
    HasRoute =>
        LET w == routeData.waypoints
        IN  /\ Cardinality(StartFlags(w)) = 1
            /\ Cardinality(EndFlags(w)) = 1
            /\ w[1].isStart
            /\ w[Len(w)].isEnd
            /\ \A i \in 1..Len(w) : /\ w[1].distance <= w[i].distance
                                    /\ w[i].distance <= w[Len(w)].distance

\* a start deletion has truncated a route that keeps a waypoint between its ends
C1_Witness ==
    /\ HasRoute
    /\ lastOp.op = "deleteWaypoint"
    /\ Len(routeData.waypoints) >= 3
    /\ Len(routeData.points) < Len(originalRouteData.points)
    /\ routeData.points[1].lon # originalRouteData.points[1].lon

HeldRoutes == {routeData, originalRouteData} \ {NoRoute}

\* C2: in every route the session holds, the first point is at distance 0, the
\* last point's distance is totalDistance, and distance never decreases
\* along the points.
C2_DistanceMonotone ==
    \A r \in HeldRoutes :
        LET p == r.points
        IN  /\ p[1].distance = 0
            /\ p[Len(p)].distance = r.totalDistance
            /\ \A i \in 1..(Len(p) - 1) : p[i].distance <= p[i + 1].distance

\* an end deletion has cut a route of positive length out of a longer one
C2_Witness ==
    /\ HasRoute
    /\ lastOp.op = "deleteWaypoint"
    /\ Len(routeData.points) >= 2
    /\ routeData.totalDistance > 0
    /\ routeData.totalDistance < originalRouteData.totalDistance

Max0(x) == IF x > 0 THEN x ELSE 0

\* C3: in every route the session holds, gain and loss are 0 at the first
\* point, each later point adds max(0, ele[i] - ele[i-1]) to the gain and
\* max(0, ele[i-1] - ele[i]) to the loss of its predecessor, and totalGain and
\* totalLoss are the last point's gain and loss.  A missing elevation enters
\* the differences as 0, as it does in the JavaScript subtraction.
C3_GainLossRecurrence ==
    \A r \in HeldRoutes :
        LET p == r.points
        IN  /\ p[1].gain = 0
            /\ p[1].loss = 0
            /\ \A i \in 2..Len(p) :
                  /\ p[i].gain = p[i - 1].gain + Max0(Num(p[i].ele) - Num(p[i - 1].ele))
                  /\ p[i].loss = p[i - 1].loss + Max0(Num(p[i - 1].ele) - Num(p[i].ele))
            /\ r.totalGain = p[Len(p)].gain
            /\ r.totalLoss = p[Len(p)].loss

\* a reversed route that climbs and descends
C3_Witness ==
    /\ HasRoute
    /\ lastOp.op = "handleReverseRoute"
    /\ routeData.totalGain > 0
    /\ routeData.totalLoss > 0

\* C4: every point of the route that selectGPXFile or linkSelectedGPXFiles
\* built from the uploaded files has an elevation (none is null).
C4_RouteElevationsResolved ==
    HasRoute => \A i \in 1..Len(routeData.points) : routeData.points[i].ele # NoEle

\* C5: a file whose elevation resolution has started is eventually stored,
\* provided only that readers load and timers fire: fetchElevationData returns
\* whether or not any request is ever answered.
C5_ResolverReturns ==
    \A k \in UploadIndices :
        (k <= Len(uploads) /\ uploads[k].pc \in InFlight)
            ~> (k <= Len(uploads) /\ uploads[k].pc = "stored")

AllNull(trackPoints) == \A i \in 1..Len(trackPoints) : trackPoints[i].ele = NoEle

\* file k comes back from fetchElevationData in this step
Returns(k) ==
    /\ k \in 1..Len(uploads)
    /\ uploads[k].pc # "stored"
    /\ uploads'[k].pc = "stored"
    /\ uploads'[k].reports # <<>>

\* C6: when a file whose points all lack an elevation comes back from
\* fetchElevationData without any source having set one, every point's ele is
\* 0 (in the handler and in the stored file), elevationSource is the
\* flat-profile label, and the flat-profile alert was raised once, in this step.
C6_FlatFallback ==
    [][\A k \in UploadIndices :
          (Returns(k) /\ AllNull(uploads[k].parsed) /\ ~uploads'[k].resolved) =>
              LET stored == loadedGPXFiles'[Len(loadedGPXFiles')]
              IN  /\ \A i \in 1..Len(stored.points) : stored.points[i].ele = 0
                  /\ stored.points = uploads'[k].trackPoints
                  /\ elevationSource' = "None (flat profile)"
                  /\ uploads'[k].notices = 1
                  /\ lastOp'.alert = "Unable to fetch elevation data"]_vars

C6_Witness ==
    \E k \in 1..Len(uploads) :
        /\ uploads[k].pc = "stored"
        /\ Len(uploads[k].parsed) = MaxUploadPoints
        /\ AllNull(uploads[k].parsed)
        /\ ~uploads[k].resolved
        /\ Len(uploads[k].reports) = 4
        /\ elevationSource = "None (flat profile)"

PriorityChain == <<"Local SRTM Data", "Open-Elevation API", "OpenTopoData API",
                   "Open-Elevation API (fallback)">>

Attempting(pc) ==
    CASE pc = "srtm" -> 1 [] pc = "oe" -> 2 [] pc = "otd" -> 3 [] pc = "pbp" -> 4
      [] OTHER -> 0

\* the sources that returned so far are the first ones of the chain, in its
\* order, and all but the last of them failed
ChainPrefix(reports) ==
    /\ Len(reports) <= 4
    /\ \A j \in 1..Len(reports) :
          /\ reports[j].source = PriorityChain[j]
          /\ j < Len(reports) => ~reports[j].success

\* C7: the sources are tried in the order local tiles, Open-Elevation,
\* OpenTopoData, point-by-point; the source under way is preceded by the
\* failures of all earlier ones and by no success; and when
\* fetchElevationData returns, elevationSource names the one source that
\* succeeded, or is the flat-profile label when all four failed.
C7_SourceOrder ==
    /\ [](\A k \in 1..Len(uploads) :
             LET u == uploads[k]
             IN  /\ ChainPrefix(u.reports)
                 /\ u.pc \in InFlight =>
                       /\ Len(u.reports) = Attempting(u.pc) - 1
                       /\ \A j \in 1..Len(u.reports) : ~u.reports[j].success)
    /\ [][\A k \in UploadIndices :
             Returns(k) =>
                 LET reports == uploads'[k].reports
                     last == reports[Len(reports)]
                 IN  /\ ChainPrefix(reports)
                     /\ IF last.success
                        THEN elevationSource' = PriorityChain[Len(reports)]
                        ELSE /\ Len(reports) = 4
                             /\ elevationSource' = "None (flat profile)"]_vars

C7_Witness ==
    \E k \in 1..Len(uploads) :
        /\ uploads[k].pc = "stored"
        /\ Len(uploads[k].reports) = 3
        /\ uploads[k].reports[3].success
        /\ elevationSource = "OpenTopoData API"

\* C8: of the files of one upload event, at most one is inside
\* fetchElevationData at any time.
C8_OneResolutionAtATime ==
    \A j, k \in 1..Len(uploads) :
        (j # k /\ uploads[j].event = uploads[k].event) =>
            ~(uploads[j].pc \in InFlight /\ uploads[k].pc \in InFlight)

\* C9: a deleteWaypoint on a route with 2 or fewer waypoints (each of them is
\* the start or the end) raises an alert and leaves the route and the original
\* route as they were.
C9_FloorDeleteRejected ==
    [][ (HasRoute /\ Len(routeData.waypoints) <= 2 /\ lastOp'.op = "deleteWaypoint")
            => /\ lastOp'.alert # ""
               /\ ~lastOp'.threw
               /\ routeData' = routeData
               /\ originalRouteData' = originalRouteData ]_vars

\* a start or end deletion was rejected
C9_Witness ==
    /\ HasRoute
    /\ lastOp.op = "deleteWaypoint"
    /\ lastOp.alert # ""
    /\ Len(routeData.waypoints) = 2

\* C10: deleteWaypoint(index) on a waypoint that is neither start nor end
\* leaves points and the three totals unchanged, makes the list one shorter,
\* and the waypoints that are neither start nor end afterwards are those of
\* before without the deleted one, unchanged and in the same order.
C10_RegularDeleteFrame ==
    [][ \A index \in WaypointIndices :
          ( /\ HasRoute
            /\ index < Len(routeData.waypoints)
            /\ NotStartEnd(routeData.waypoints[index + 1])
            /\ deleteWaypoint(index) )
          => /\ routeData'.points = routeData.points
             /\ routeData'.totalDistance = routeData.totalDistance
             /\ routeData'.totalGain = routeData.totalGain
             /\ routeData'.totalLoss = routeData.totalLoss
             /\ Len(routeData'.waypoints) = Len(routeData.waypoints) - 1
             /\ SelectSeq(routeData'.waypoints, NotStartEnd)
                   = SelectSeq(RemoveAt(routeData.waypoints, index + 1), NotStartEnd) ]_vars

\* the only waypoint between start and end of the selected route was deleted
C10_Witness ==
    /\ HasRoute
    /\ lastOp.op = "deleteWaypoint"
    /\ lastOp.alert = ""
    /\ routeData.points = originalRouteData.points
    /\ Len(routeData.waypoints) < Len(originalRouteData.waypoints)

\* the point is where the waypoint lies, at the waypoint's distance
SnappedTo(point, wp) ==
    /\ point.lat = wp.lat /\ point.lon = wp.lon /\ point.ele = wp.ele
    /\ Abs(point.distance - wp.distance) < 10

\* the first point of the route the waypoint is snapped to (1-based)
SnapIndex(data, wp) ==
    CHOOSE j \in 1..Len(data.points) :
        /\ SnappedTo(data.points[j], wp)
        /\ \A i \in 1..(j - 1) : ~SnappedTo(data.points[i], wp)

Place(point) == [lat |-> point.lat, lon |-> point.lon, ele |-> point.ele]

Places(points) == [i \in 1..Len(points) |-> Place(points[i])]

\* C12: handleReverseRoute applied twice to the route the session holds gives
\* its points back in the same order (lat, lon, ele) and the same
\* totalDistance, totalGain and totalLoss.
C12_ReverseTwice ==
    HasRoute =>
        LET twice == ReversedRoute(ReversedRoute(routeData))
        IN  /\ Places(twice.points) = Places(routeData.points)
            /\ twice.totalDistance = routeData.totalDistance
            /\ twice.totalGain = routeData.totalGain
            /\ twice.totalLoss = routeData.totalLoss

\* a route that climbs more than it descends is back in its original order
\* after reversals
C12_Witness ==
    /\ HasRoute
    /\ lastOp.op = "handleReverseRoute"
    /\ routeData.totalGain # routeData.totalLoss
    /\ Len(routeData.points) = MaxPoints
    /\ Places(routeData.points) = Places(originalRouteData.points)

Edits == {"handleReverseRoute", "deleteWaypoint", "addWaypointFromMapClick",
          "addWaypointFromChartClick", "renameWaypoint"}

\* C13: selectGPXFile and linkSelectedGPXFiles store as original a route equal
\* to the one they build; no reverse, delete, insert or rename changes the
\* original; handleResetRoute leaves it alone and makes the current route
\* equal to it; and the current route and the original are never one object,
\* so that no write to the one shows in the other.
C13_OriginalKept ==
    [][ /\ lastOp'.op \in Edits \cup {"handleResetRoute"} =>
              originalRouteData' = originalRouteData
        /\ (lastOp'.op = "handleResetRoute" /\ originalRouteData # NoRoute) =>
              routeData' = originalRouteData
        /\ lastOp'.op \in {"selectGPXFile", "linkSelectedGPXFiles"} =>
              \/ originalRouteData' = routeData'
              \/ UNCHANGED <<routeData, originalRouteData>>
        /\ ~aliased' ]_vars

\* a route whose points and waypoints were edited, the last edit a rename,
\* while the original still has what was built
C13_Witness ==
    /\ HasRoute
    /\ lastOp.op = "renameWaypoint"
    /\ \E k \in 1..Len(routeData.waypoints) : routeData.waypoints[k].name = "Peak"
    /\ Len(routeData.points) < Len(originalRouteData.points)
    /\ \A k \in 1..Len(originalRouteData.waypoints) :
          originalRouteData.waypoints[k].name # "Peak"

\* the end of a track that 'start' or 'end' names
EndPoint(trackPoints, end) ==
    IF end = "start" THEN trackPoints[1] ELSE trackPoints[Len(trackPoints)]

\* C14: in the linked route the last point that comes from the first file is
\* that file's end named by point1, and the first point that comes from the
\* second file is that file's end named by point2.
C14_SeamJoinsNamedEnds ==
    [][ \A file1Index, file2Index \in 0..1, point1, point2 \in {"start", "end"} :
          ( /\ file1Index # file2Index
            /\ linkSelectedGPXFiles(file1Index, point1, file2Index, point2) )
          => LET points1 == loadedGPXFiles[file1Index + 1].points
                 points2 == loadedGPXFiles[file2Index + 1].points
             IN  /\ Place(routeData'.points[Len(points1)]) = EndPoint(points1, point1)
                 /\ Place(routeData'.points[Len(points1) + 1]) = EndPoint(points2, point2) ]_vars

\* a track as it enters the linked route: as recorded for 'start', end to
\* start for 'end'
Oriented(trackPoints, end) ==
    IF end = "start" THEN trackPoints
    ELSE [i \in 1..Len(trackPoints) |-> trackPoints[Len(trackPoints) + 1 - i]]

\* C15: linking two different files gives the route that processRouteData
\* builds from the oriented points of the first followed by the oriented
\* points of the second (as many points as the two files have) and from the
\* first file's waypoints followed by the second's; with point1 = 'end' its
\* first point is the first file's last.
C15_LinkConcatenates ==
    [][ \A file1Index, file2Index \in 0..1, point1, point2 \in {"start", "end"} :
          ( /\ file1Index # file2Index
            /\ linkSelectedGPXFiles(file1Index, point1, file2Index, point2) )
          => LET gpxFile1 == loadedGPXFiles[file1Index + 1]
                 gpxFile2 == loadedGPXFiles[file2Index + 1]
                 linked == Oriented(gpxFile1.points, point1) \o Oriented(gpxFile2.points, point2)
             IN  /\ Len(routeData'.points) = Len(gpxFile1.points) + Len(gpxFile2.points)
                 /\ Places(routeData'.points) = linked
                 /\ point1 = "end" =>
                       Place(routeData'.points[1]) = gpxFile1.points[Len(gpxFile1.points)]
                 /\ routeData' = processRouteData(linked, gpxFile1.waypoints \o gpxFile2.waypoints)
                 /\ originalRouteData' = routeData' ]_vars

\* two tracks of full length were linked, the first entered end to start
C15_Witness ==
    /\ HasRoute
    /\ lastOp.alert = "Successfully linked"
    /\ Len(routeData.points) = 2 * MaxJoinPoints
    /\ Len(loadedGPXFiles[1].points) = MaxJoinPoints
    /\ loadedGPXFiles[1].points[1] # loadedGPXFiles[1].points[MaxJoinPoints]
    /\ Place(routeData.points[1]) = loadedGPXFiles[1].points[MaxJoinPoints]
    /\ Len(routeData.waypoints) = 4

\* C16: reverse, delete, insert (map or chart), rename and reset invoked
\* while there is no route raise no exception and change nothing of the
\* session.
C16_NoRouteNoOp ==
    [][ (routeData = NoRoute /\ lastOp'.op \in Edits \cup {"handleResetRoute"}) =>
            /\ ~lastOp'.threw
            /\ UNCHANGED <<loadedGPXFiles, selectedGPXIndex, routeData, originalRouteData,
                           elevationSource>> ]_vars

\* C17: processRouteData applied to no points signals the empty track and
\* returns no route.
C17_EmptyTrackRejected ==
    (call.fn = "processRouteData" /\ call.done /\ Len(call.args.trackPoints) = 0)
        => call.threw

\* the files uploaded in this step, none of which has a track point
UploadsOnlyEmptyFiles ==
    /\ Len(uploads') > Len(uploads)
    /\ \A k \in (Len(uploads) + 1)..Len(uploads') : Len(uploads'[k].parsed) = 0

\* C18: an upload of files without track points, and the rejection of each of
\* them with an alert, leave the loaded files, the route and the original
\* route as they were.
C18_EmptyFileChangesNothing ==
    [][ /\ UploadsOnlyEmptyFiles =>
              UNCHANGED <<loadedGPXFiles, routeData, originalRouteData>>
        /\ \A k \in UploadIndices :
              ( /\ k <= Len(uploads)
                /\ uploads[k].pc = "reading"
                /\ Len(uploads[k].parsed) = 0
                /\ uploads'[k].pc # "reading" )
              => /\ uploads'[k].pc = "rejected"
                 /\ lastOp'.alert = "No track points found"
                 /\ UNCHANGED <<loadedGPXFiles, routeData, originalRouteData>> ]_vars

\* C19: the indices fetchElevationData samples of a track of n >= 1 points
\* are at most 100, are the multiples of the stride ceil(n / 100) below n, in
\* order and from 0, followed by n - 1 unless it is one of them.
C19_SamplingBounded ==
    (call.fn = "fetchElevationData" /\ call.done) =>
        LET n == call.args.length
            sampledIndices == call.result
            stride == (n + 99) \div 100
        IN  /\ Len(sampledIndices) <= 100
            /\ sampledIndices[1] = 0
            /\ sampledIndices[Len(sampledIndices)] = n - 1
            /\ \A k \in 1..Len(sampledIndices) :
                  \/ sampledIndices[k] = (k - 1) * stride
                  \/ k = Len(sampledIndices) /\ sampledIndices[k] = n - 1
            /\ \A i \in 0..(n - 1) :
                  i % stride = 0 => \E k \in 1..Len(sampledIndices) : sampledIndices[k] = i

\* C20: interpolateElevation leaves no null and changes no resolved
\* elevation (nor any position); a null at i between its nearest resolved
\* neighbours p < i < n, as they were before, gets
\* ele[p] + (ele[n] - ele[p]) * (i - p) / (n - p); a null with resolved
\* elevations on one side only gets the nearest of them; and without any
\* resolved elevation all become 0.
C20_InterpolationLinear ==
    (call.fn = "interpolateElevation" /\ call.done) =>
        LET before == call.args.trackPoints
            after == call.result
            Resolved == {j \in 1..Len(before) : before[j].ele # NoEle}
        IN  /\ Len(after) = Len(before)
            /\ \A i \in 1..Len(before) :
                  LET Lower == {j \in Resolved : j < i}
                      Upper == {j \in Resolved : j > i}
                      p == CHOOSE j \in Lower : \A k \in Lower : k <= j
                      n == CHOOSE j \in Upper : \A k \in Upper : j <= k
                  IN  /\ after[i].ele # NoEle
                      /\ after[i].lat = before[i].lat /\ after[i].lon = before[i].lon
                      /\ IF i \in Resolved THEN after[i].ele = before[i].ele
                         ELSE IF Lower # {} /\ Upper # {}
                         THEN (after[i].ele - before[p].ele) * (n - p)
                                 = (before[n].ele - before[p].ele) * (i - p)
                         ELSE IF Lower # {} THEN after[i].ele = before[p].ele
                         ELSE IF Upper # {} THEN after[i].ele = before[n].ele
                         ELSE after[i].ele = 0

\* a sequence resolved at its two ends only came out evenly spaced
C20_Witness ==
    /\ call.fn = "interpolateElevation" /\ call.done
    /\ Len(call.args.trackPoints) = MaxInterpolated
    /\ call.args.trackPoints[1].ele = 0
    /\ call.args.trackPoints[MaxInterpolated].ele = EleUnit * MaxLevel
    /\ \A i \in 2..(MaxInterpolated - 1) :
          /\ call.args.trackPoints[i].ele = NoEle
          /\ call.result[i].ele - call.result[i - 1].ele
                = call.result[i + 1].ele - call.result[i].ele
          /\ call.result[i].ele > call.result[i - 1].ele

\* the waypoint has the point's lat, lon, ele, distance, gain and loss
Carries(wp, point) ==
    /\ wp.lat = point.lat /\ wp.lon = point.lon /\ wp.ele = point.ele
    /\ wp.distance = point.distance /\ wp.gain = point.gain /\ wp.loss = point.loss

\* the point is one of the points nearest to (lat, lon)
IsNearest(points, point, lat, lon) ==
    \A m \in 1..Len(points) :
        haversineDistance(lat, lon, point.lat, point.lon)
            <= haversineDistance(lat, lon, points[m].lat, points[m].lon)

C22_WaypointsSnapped ==
    HasRoute =>
        \A k \in 1..Len(routeData.waypoints) :
            LET wp == routeData.waypoints[k]
                nearestPoint == findNearestTrackPoint(routeData.points, wp.lat, wp.lon)
            IN  /\ wp.distance = nearestPoint.distance
                /\ wp.ele = nearestPoint.ele
                /\ wp.gain = nearestPoint.gain
                /\ wp.loss = nearestPoint.loss

\* C23: whenever there is an active route its waypoints are in ascending
\* order of distance, and so are those of the original route.
C23_WaypointsSorted ==
    \A r \in HeldRoutes :
        \A i \in 1..(Len(r.waypoints) - 1) :
            r.waypoints[i].distance <= r.waypoints[i + 1].distance

\* a waypoint was inserted by a click and sorted in before the one the file
\* came with
C23_Witness ==
    /\ HasRoute
    /\ lastOp.op \in {"addWaypointFromMapClick", "addWaypointFromChartClick"}
    /\ Len(routeData.waypoints) = 4
    /\ routeData.waypoints[2].isCustom
    /\ routeData.waypoints[3].name = "Hut"
    /\ routeData.waypoints[2].distance < routeData.waypoints[3].distance

\* C24: one handleReverseRoute on an active route gives the previous points
\* in reverse order (lat, lon, ele) with distance, gain and loss counted from
\* the new first point (a point that was d before the old end is now at
\* distance d, and what was descended after it is now climbed before it); the
\* total distance is as before and total gain and total loss are exchanged.
C24_ReverseOnce ==
    [][ (HasRoute /\ handleReverseRoute) =>
          LET old == routeData.points
              new == routeData'.points
              n == Len(old)
          IN  /\ Len(new) = n
              /\ \A i \in 1..n :
                    /\ Place(new[i]) = Place(old[n + 1 - i])
                    /\ new[i].distance = routeData.totalDistance - old[n + 1 - i].distance
                    /\ new[i].gain = routeData.totalLoss - old[n + 1 - i].loss
                    /\ new[i].loss = routeData.totalGain - old[n + 1 - i].gain
              /\ new[1].distance = 0 /\ new[1].gain = 0 /\ new[1].loss = 0
              /\ routeData'.totalDistance = routeData.totalDistance
              /\ routeData'.totalGain = routeData.totalLoss
              /\ routeData'.totalLoss = routeData.totalGain ]_vars

\* the selected route of full length, which only climbs, was reversed once
\* and now only descends
C24_Witness ==
    /\ HasRoute
    /\ lastOp.op = "handleReverseRoute"
    /\ Len(routeData.points) = MaxPoints
    /\ originalRouteData.totalGain > 0
    /\ originalRouteData.totalLoss = 0
    /\ routeData.totalLoss = originalRouteData.totalGain
    /\ routeData.totalGain = 0
    /\ routeData.points[1].lon = originalRouteData.points[MaxPoints].lon
    /\ routeData.points[1].lon # originalRouteData.points[1].lon

\* the first of the points for which Measure is least
FirstLeast(points, Measure(_)) ==
    points[CHOOSE i \in 1..Len(points) :
              /\ \A m \in 1..Len(points) : Measure(points[i]) <= Measure(points[m])
              /\ \A m \in 1..(i - 1) : Measure(points[m]) > Measure(points[i])]

\* how often the waypoint occurs in the list
Occurrences(waypoints, wp) == Cardinality({k \in 1..Len(waypoints) : waypoints[k] = wp})

\* the step adds one custom waypoint without name at the point, and leaves
\* points and totals alone
AddsOneAt(point) ==
    LET newWaypoint == MakeWaypoint("", point, FALSE, FALSE, TRUE)
    IN  /\ Len(routeData'.waypoints) = Len(routeData.waypoints) + 1
        /\ Occurrences(routeData'.waypoints, newWaypoint)
              = Occurrences(routeData.waypoints, newWaypoint) + 1
        /\ routeData'.points = routeData.points
        /\ routeData'.totalDistance = routeData.totalDistance
        /\ routeData'.totalGain = routeData.totalGain
        /\ routeData'.totalLoss = routeData.totalLoss

\* C25: on an active route, addWaypointFromMapClick(lat, lon) adds exactly one
\* waypoint, with isCustom, without name, neither start nor end, carrying the
\* first point nearest to (lat, lon); addWaypointFromChartClick(distance) adds
\* exactly one such waypoint carrying the first point whose distance is
\* nearest to the click's; a waypoint already at that point does not prevent
\* it; points and the three totals stay as they are.
C25_ClickAddsOne ==
    [][ /\ \A lon \in Lons :
              (HasRoute /\ addWaypointFromMapClick(0, lon)) =>
                  LET Away(point) == haversineDistance(0, lon, point.lat, point.lon)
                  IN  AddsOneAt(FirstLeast(routeData.points, Away))
        /\ \A distance \in ChartDistances :
              (HasRoute /\ addWaypointFromChartClick(distance)) =>
                  LET Off(point) == Abs(point.distance - distance)
                  IN  AddsOneAt(FirstLeast(routeData.points, Off)) ]_vars

\* a second click at the same place has left two waypoints that coincide,
\* away from both ends of the route
C25_Witness ==
    /\ HasRoute
    /\ lastOp.op \in {"addWaypointFromMapClick", "addWaypointFromChartClick"}
    /\ Len(routeData.waypoints) = 4
    /\ routeData.waypoints[2] = routeData.waypoints[3]
    /\ routeData.waypoints[2].isCustom
    /\ routeData.waypoints[2].name = ""
    /\ routeData.waypoints[2].distance > 0
    /\ routeData.waypoints[2].distance < routeData.totalDistance

\* C26: when deleteWaypoint truncates the route, the waypoints between start
\* and end afterwards are those of before that lay on the part of the track
\* that is kept (not before the new first point, not after the new last
\* point), in their order and under their names, each at a distance within
\* 0..totalDistance of the new route; a waypoint that lay on the part cut
\* off is not among them.
C26_TruncationDropsRemoved ==
    [][ \A index \in WaypointIndices :
          ( /\ HasRoute
            /\ index < Len(routeData.waypoints)
            /\ deleteWaypoint(index)
            /\ routeData'.points # routeData.points )
          => LET old == routeData.points
                 new == routeData'.points
                 fromStart == routeData.waypoints[index + 1].isStart
                 newFirst == old[Len(old) - Len(new) + 1]
                 newLast == old[Len(new)]
                 OnRetained(wp) == IF fromStart THEN wp.distance >= newFirst.distance
                                   ELSE wp.distance <= newLast.distance
                 kept == SelectSeq(SelectSeq(routeData.waypoints, NotStartEnd), OnRetained)
                 survivors == SelectSeq(routeData'.waypoints, NotStartEnd)
             IN  /\ Len(survivors) = Len(kept)
                 /\ \A i \in 1..Len(survivors) :
                       /\ survivors[i].name = kept[i].name
                       /\ survivors[i].distance >= 0
                       /\ survivors[i].distance <= routeData'.totalDistance ]_vars

\* the upload that stored the loaded file
UploadOf(file) ==
    CHOOSE k \in 1..Len(uploads) : uploads[k].name = file.name /\ uploads[k].pc = "stored"

\* C27: right after selectGPXFile(i) has displayed loaded file i,
\* elevationSource is "GPX File" if the file was stored with the elevations it
\* came with, and otherwise the source fetchElevationData ended with for
\* that file.
C27_SourceOfSelectedFile ==
    (lastOp.op = "selectGPXFile" /\ HasRoute) =>
        LET u == uploads[UploadOf(loadedGPXFiles[selectedGPXIndex + 1])]
        IN  elevationSource = IF u.reports = <<>> THEN "GPX File" ELSE u.source

DistinctCoordinates(points) ==
    \A i, j \in 1..Len(points) :
        (points[i].lat = points[j].lat /\ points[i].lon = points[j].lon) => i = j

\* C29: on a route whose points have pairwise distinct coordinates,
\* handleReverseRoute keeps the number of waypoints and reverses their order;
\* a waypoint that was at distance d is at totalDistance - d, one that is
\* neither start nor end keeps its name, lat and lon and stays neither; and
\* handleReverseRoute applied twice gives the waypoint list back as it was.
C29_ReverseMovesWaypoints ==
    (HasRoute /\ DistinctCoordinates(routeData.points)) =>
        LET once == ReversedRoute(routeData)
            twice == ReversedRoute(once)
            w == routeData.waypoints
            v == once.waypoints
            n == Len(w)
        IN  /\ Len(v) = n
            /\ \A k \in 1..n :
                  /\ v[k].distance = routeData.totalDistance - w[n + 1 - k].distance
                  /\ NotStartEnd(w[n + 1 - k]) =>
                        /\ NotStartEnd(v[k])
                        /\ v[k].name = w[n + 1 - k].name
                        /\ v[k].lat = w[n + 1 - k].lat
                        /\ v[k].lon = w[n + 1 - k].lon
            /\ twice.waypoints = w

\* a reversed route of full length with distinct coordinates, whose hut is on
\* the way and whose inserted waypoint, once at the start, is now at the end
C29_Witness ==
    /\ HasRoute
    /\ lastOp.op = "handleReverseRoute"
    /\ Len(routeData.points) = MaxPoints
    /\ DistinctCoordinates(routeData.points)
    /\ Len(routeData.waypoints) = 4
    /\ routeData.waypoints[2].name = "Hut"
    /\ routeData.waypoints[2].distance > 0
    /\ routeData.waypoints[3].isCustom
    /\ routeData.waypoints[3].distance = routeData.totalDistance
    /\ routeData.points[1].lon # originalRouteData.points[1].lon

\* C30: every file in loadedGPXFiles was uploaded by the most recent upload
\* event: none of an earlier event is appended once a newer one has begun.
C30_OnlyLatestUpload ==
    \A i \in 1..Len(loadedGPXFiles) :
        \E k \in 1..Len(uploads) :
            /\ uploads[k].name = loadedGPXFiles[i].name
            /\ uploads[k].event = uploads[Len(uploads)].event

====
